---- MODULE Spec2Model ----
(***************************************************************************)
(* MS-Apriori with SDC and AVPT constraints (HW1/HW1.py, class MSApriori). *)
(* The mining driver run_msapriori is modelled as a state machine over the *)
(* object's fields; the candidate generators, the support oracle and the   *)
(* constraint predicates are operators computed the way the code computes  *)
(* them.  Ratios are Python floats in the code, so they are IEEE-754       *)
(* binary64 values here (53-bit significand, round to nearest even).       *)
(***************************************************************************)
EXTENDS Integers, Sequences, FiniteSets, TLC

\* ------------------------------------------------------------------ bounds
\* The data files read: at most MaxTrans transactions over the items
\* 1..MaxItem, or at most MaxWideTrans transactions over 1..MaxWideItem.
MaxItem == 3
MaxTrans == 5
MaxWideItem == 4
MaxWideTrans == 2

\* ------------------------------------------------- IEEE-754 binary64 values
Pow2(n) == 2^n

\* A non-negative float is <<e, h, l>>: its 53-bit significand is
\* h * 2^27 + l with 2^25 <= h < 2^26 and 0 <= l < 2^27, and its value is
\* (h * 2^27 + l) * 2^(e - 53).  Zero is <<0, 0, 0>>.  The significand is
\* kept in two halves so that every intermediate fits a machine integer.
FZero == <<0, 0, 0>>

\* Round to nearest, ties to even: up says whether the discarded tail is
\* above half, or exactly half with an odd significand.
RoundUp(e, h, l, up) ==
  IF ~up THEN <<e, h, l>>
  ELSE IF l + 1 < Pow2(27) THEN <<e, h, l + 1>>
  ELSE IF h + 1 < Pow2(26) THEN <<e, h + 1, 0>>
  ELSE <<e + 1, Pow2(25), 0>>

\* Scale n / d into [1/2, 1): the result <<n2, d2, e>> has n/d = (n2/d2) * 2^e.
RECURSIVE Normalize(_, _, _)
Normalize(n, d, e) ==
  IF n >= d THEN Normalize(n, 2 * d, e + 1)
  ELSE IF 2 * n < d THEN Normalize(2 * n, d, e - 1)
  ELSE <<n, d, e>>

\* The float nearest to the rational n / d (n >= 0, d > 0, both small): what
\* int / int and float("<decimal>") return.  The quotient is produced by long
\* division, 13 + 13 + 13 + 14 bits at a time.
FromRatio(n, d) ==
  IF n = 0 THEN FZero
  ELSE LET nd == Normalize(n, d, 0)
           d2 == nd[2]
           t1 == nd[1] * Pow2(13)
           t2 == (t1 % d2) * Pow2(13)
           t3 == (t2 % d2) * Pow2(13)
           t4 == (t3 % d2) * Pow2(14)
           r  == t4 % d2
           h  == (t1 \div d2) * Pow2(13) + (t2 \div d2)
           l  == (t3 \div d2) * Pow2(14) + (t4 \div d2)
       IN RoundUp(nd[3], h, l, 2 * r > d2 \/ (2 * r = d2 /\ l % 2 = 1))

FLess(x, y) ==
  IF y[2] = 0 THEN FALSE
  ELSE IF x[2] = 0 THEN TRUE
  ELSE \/ x[1] < y[1]
       \/ x[1] = y[1] /\ x[2] < y[2]
       \/ x[1] = y[1] /\ x[2] = y[2] /\ x[3] < y[3]

FLeq(x, y) == x = y \/ FLess(x, y)
FGeq(x, y) == FLeq(y, x)

\* The significand with three extra low bits (guard, round, sticky), as two
\* 28-bit halves <<H, L>>.
Widen(x) == <<4 * x[2] + (8 * x[3]) \div Pow2(28), (8 * x[3]) % Pow2(28)>>

\* <<H, L>> shifted right by sh bits; a lost 1 bit is kept in the lowest bit.
ShiftRightSticky(w, sh) ==
  LET H == w[1]
      L == w[2]
      Or1(v, lost) == IF lost /\ v % 2 = 0 THEN v + 1 ELSE v
  IN IF sh = 0 THEN w
     ELSE IF sh < 28
     THEN <<H \div Pow2(sh),
            Or1(L \div Pow2(sh) + (H % Pow2(sh)) * Pow2(28 - sh),
                L % Pow2(sh) # 0)>>
     ELSE IF sh < 56
     THEN <<0, Or1(H \div Pow2(sh - 28),
                   L # 0 \/ H % Pow2(sh - 28) # 0)>>
     ELSE <<0, 1>>

\* <<H, L>> shifted left until its top bit (bit 55) is set, with the exponent.
RECURSIVE NormalizeWide(_, _, _)
NormalizeWide(e, H, L) ==
  IF H >= Pow2(27) THEN <<e, H, L>>
  ELSE NormalizeWide(e - 1, 2 * H + L \div Pow2(27), (2 * L) % Pow2(28))

\* x - y for floats x >= y >= 0: the exact difference, rounded once.
FSub(x, y) ==
  IF y = FZero THEN x
  ELSE IF x = y THEN FZero
  ELSE LET a == Widen(x)
           b == ShiftRightSticky(Widen(y), x[1] - y[1])
           borrow == IF a[2] < b[2] THEN 1 ELSE 0
           n == NormalizeWide(x[1], a[1] - b[1] - borrow,
                              a[2] - b[2] + borrow * Pow2(28))
           low == n[3] % 8
           h == n[2] \div 4
           l == (n[2] % 4) * Pow2(25) + n[3] \div 8
       IN RoundUp(n[1], h, l, low > 4 \/ (low = 4 /\ l % 2 = 1))

\* ------------------------------------------------------------------ inputs
\* A line of the data file: a non-empty set of item identifiers.
Transaction(m) == (SUBSET (1..m)) \ {{}}

\* Only counts over the transactions are ever taken, so one list per multiset
\* of transactions is read: larger transactions first, then those with the
\* smaller items first.
RECURSIVE Mask(_, _, _, _)
Mask(t, m, i, acc) ==
  IF i > m THEN acc
  ELSE Mask(t, m, i + 1, 2 * acc + (IF i \in t THEN 1 ELSE 0))

TransactionKey(t, m) == Cardinality(t) * Pow2(m) + Mask(t, m, 1, 0)

\* The lists of exactly n transactions over the items 1..m.
RECURSIVE DataFilesOf(_, _)
DataFilesOf(m, n) ==
  IF n = 0 THEN {<<>>}
  ELSE {Append(p[1], p[2]) :
          p \in {q \in DataFilesOf(m, n - 1) \X Transaction(m) :
                   \/ Len(q[1]) = 0
                   \/ TransactionKey(q[2], m)
                        <= TransactionKey(q[1][Len(q[1])], m)}}

DataFiles ==
  UNION ({DataFilesOf(MaxItem, n) : n \in 0..MaxTrans}
         \cup {DataFilesOf(MaxWideItem, n) : n \in 0..MaxWideTrans})

\* Decimal literals of the parameter file, as <<numerator, denominator>>.
MISValues == {<<2, 10>>, <<6, 10>>}
MISRestValues == {<<2, 10>>, <<11, 10>>}
SDCValues == {<<2, 10>>, <<1, 1>>}
AVPTValues == {<<0, 1>>, <<5, 1>>}
\* Prices are whole numbers, for which the float sum of line 134 is exact.
PriceValues == {0}
\* The items that have a line of their own in a parameter file that names
\* items at all; every other item takes the "rest" value.
MISLineItems == {1, 2}
PriceLineItems == {1}

\* ------------------------------------------------------------------- state
VARIABLES
  pc,                 \* position in main / run_msapriori
  transactions,       \* self.transactions: list of sets
  total_transactions, \* self.total_transactions
  mis_values,         \* self.mis_values: item -> float
  mis_rest,           \* self.mis_rest
  prices,             \* self.prices: item -> price
  price_rest,         \* self.price_rest
  sdc,                \* self.sdc
  avpt,               \* self.avpt
  item_support_cache, \* self.item_support_cache: item -> float
  frequent_itemsets,  \* self.frequent_itemsets: level -> list of records
  M,                  \* init_pass's M (0 is None)
  candidates_2,       \* run_msapriori's candidates_2
  candidates,         \* run_msapriori's candidates (k >= 3)
  k                   \* run_msapriori's k (0 before line 317)

vars == <<pc, transactions, total_transactions, mis_values, mis_rest, prices,
          price_rest, sdc, avpt, item_support_cache, frequent_itemsets, M,
          candidates_2, candidates, k>>

params == <<mis_values, mis_rest, prices, price_rest, sdc, avpt>>
data == <<transactions, total_transactions>>

Range(s) == {s[i] : i \in DOMAIN s}

\* ------------------------------------------------------- parameter lookups
get_mis(item) ==
  IF item \in DOMAIN mis_values THEN mis_values[item] ELSE mis_rest

get_price(item) ==
  IF item \in DOMAIN prices THEN prices[item] ELSE price_rest

\* ---------------------------------------------------------- support oracle
\* A support oracle that counts the transactions sharing an item with the
\* itemset instead of those containing it.
CountOverlapping(itemset) ==
  Cardinality({i \in DOMAIN transactions : itemset \cap transactions[i] # {}})

get_support_count(itemset) ==
  Cardinality({i \in DOMAIN transactions : itemset \subseteq transactions[i]})

MaxOf(S) == CHOOSE x \in S : \A y \in S : y <= x
MinOf(S) == CHOOSE x \in S : \A y \in S : x <= y

\* sorted(list(itemset))
RECURSIVE sorted(_)
sorted(S) ==
  IF S = {} THEN <<>> ELSE <<MinOf(S)>> \o sorted(S \ {MinOf(S)})

get_tail_count(itemset) ==
  IF Cardinality(itemset) <= 1 THEN total_transactions
  ELSE LET sorted_items == sorted(itemset)
           prefix == Range(SubSeq(sorted_items, 1, Len(sorted_items) - 1))
       IN Cardinality({i \in DOMAIN transactions :
                         prefix \subseteq transactions[i]})

RECURSIVE SumPrice(_)
SumPrice(S) ==
  IF S = {} THEN 0
  ELSE LET x == CHOOSE y \in S : TRUE IN get_price(x) + SumPrice(S \ {x})

get_average_price(itemset) == FromRatio(SumPrice(itemset), Cardinality(itemset))

\* ----------------------------------------------------- constraint evaluator
\* The singleton support satisfies_sdc uses: the cached one, else computed.
CachedSupport(item) ==
  IF item \in DOMAIN item_support_cache THEN item_support_cache[item]
  ELSE FromRatio(get_support_count({item}), total_transactions)

FMax(S) == CHOOSE x \in S : \A y \in S : FLeq(y, x)
FMin(S) == CHOOSE x \in S : \A y \in S : FLeq(x, y)

satisfies_sdc(itemset) ==
  IF Cardinality(itemset) <= 1 THEN TRUE
  ELSE LET supports == {CachedSupport(item) : item \in itemset}
       IN FLeq(FSub(FMax(supports), FMin(supports)), sdc)

satisfies_avpt(itemset) == FGeq(get_average_price(itemset), avpt)

\* ------------------------------------------------------------- init_pass
\* item_counts after the loop of lines 165-168.
item_counts ==
  [item \in UNION Range(transactions) |-> get_support_count({item})]

\* The cache as lines 171-172 fill it.
SupportCacheOf(counts) ==
  [item \in DOMAIN counts |-> FromRatio(counts[item], total_transactions)]

\* The sort key (get_mis(x), x) of line 175.
MisBefore(a, b) ==
  \/ FLess(get_mis(a), get_mis(b))
  \/ (get_mis(a) = get_mis(b) /\ a < b)

RECURSIVE SortByMis(_)
SortByMis(S) ==
  IF S = {} THEN <<>>
  ELSE LET first == CHOOSE a \in S : \A b \in S \ {a} : MisBefore(a, b)
       IN <<first>> \o SortByMis(S \ {first})

\* A scan for M that does not stop at the first hit (no break at line 182).
FindLastM(items_list, cache) ==
  LET hits == {i \in DOMAIN items_list :
                 FGeq(cache[items_list[i]], get_mis(items_list[i]))}
  IN IF hits = {} THEN 0 ELSE items_list[MaxOf(hits)]

\* Lines 178-182: the first item of the list whose support reaches its own
\* MIS; 0 when there is none.
FindM(items_list, cache) ==
  LET hits == {i \in DOMAIN items_list :
                 FGeq(cache[items_list[i]], get_mis(items_list[i]))}
  IN IF hits = {} THEN 0 ELSE items_list[MinOf(hits)]

\* Level 1 tested against each item's own MIS, as plain Apriori with MIS would.
OwnMinSupport(item, m) == get_mis(item)

\* Lines 196-200: the support an item must reach to enter level 1.
InitMinSupport(item, m) == get_mis(m)

\* The record appended at lines 206-208, 305-307 and 335-337.
Record(itemset) ==
  <<itemset, get_support_count(itemset), get_tail_count(itemset),
    get_average_price(itemset)>>

\* Lines 190-208.
RECURSIVE Frequent1Loop(_, _, _, _, _)
Frequent1Loop(items_list, i, m, cache, acc) ==
  IF i > Len(items_list) THEN acc
  ELSE LET item == items_list[i]
       IN Frequent1Loop(items_list, i + 1, m, cache,
            IF /\ FGeq(cache[item], InitMinSupport(item, m))
               /\ satisfies_avpt({item})
            THEN Append(acc, Record({item}))
            ELSE acc)

\* init_pass (lines 162-210): <<the cache it leaves, M, the list it returns>>.
init_pass ==
  LET cache == SupportCacheOf(item_counts)
      all_items == SortByMis(DOMAIN cache)
      m == FindM(all_items, cache)
  IN <<cache, m,
       IF m = 0 THEN <<>> ELSE Frequent1Loop(all_items, 1, m, cache, <<>>)>>

\* ---------------------------------------------------- candidate generation
\* Level-2 generation without the test of line 223.
Level2AdmitsAll(item_i) == TRUE

\* Line 223: the test on item_i.
Level2Admits(item_i) == FGeq(item_support_cache[item_i], get_mis(item_i))

\* Lines 217-225.
RECURSIVE Level2Loop(_, _, _, _)
Level2Loop(items_list, i, j, acc) ==
  IF i > Len(items_list) THEN acc
  ELSE IF j > Len(items_list) THEN Level2Loop(items_list, i + 1, i + 2, acc)
  ELSE Level2Loop(items_list, i, j + 1,
         IF Level2Admits(items_list[i])
         THEN Append(acc, {items_list[i], items_list[j]})
         ELSE acc)

level2_candidate_gen(frequent_1) ==
  LET items_list == [n \in DOMAIN frequent_1 |->
                       CHOOSE x \in frequent_1[n][1] : TRUE]
  IN Level2Loop(items_list, 1, 2, <<>>)

\* A join on the size of the union alone, without the prefix test of line 245.
JoinsBySize(set_i, set_j, kk) == Cardinality(set_i \cup set_j) = kk

\* Lines 241-249: whether two previous-level itemsets join into a candidate
\* of size kk.
Joins(set_i, set_j, kk) ==
  LET list_i == sorted(set_i)
      list_j == sorted(set_j)
  IN /\ SubSeq(list_i, 1, Len(list_i) - 1) = SubSeq(list_j, 1, Len(list_j) - 1)
     /\ Cardinality(set_i \cup set_j) = kk

\* Lines 235-250.
RECURSIVE JoinLoop(_, _, _, _, _)
JoinLoop(itemsets, kk, i, j, acc) ==
  IF i > Len(itemsets) THEN acc
  ELSE IF j > Len(itemsets) THEN JoinLoop(itemsets, kk, i + 1, i + 2, acc)
  ELSE JoinLoop(itemsets, kk, i, j + 1,
         IF Joins(itemsets[i], itemsets[j], kk)
         THEN Append(acc, itemsets[i] \cup itemsets[j])
         ELSE acc)

\* Line 267: whether the subset left by removing item must be frequent.
SubsetChecked(candidate, item) ==
  LET c1 == sorted(candidate)[1]
  IN c1 \in (candidate \ {item}) \/ get_mis(item) = get_mis(c1)

\* A prune step that checks no subset.
no_subset_checked(candidate, frequent_sets) == TRUE

\* Lines 256-273 for one candidate.
all_subsets_frequent(candidate, frequent_sets) ==
  \A item \in candidate :
    SubsetChecked(candidate, item) => (candidate \ {item}) \in frequent_sets

RECURSIVE KeepSeq(_, _, _)
KeepSeq(s, keep, i) ==
  IF i > Len(s) THEN <<>>
  ELSE (IF s[i] \in keep THEN <<s[i]>> ELSE <<>>) \o KeepSeq(s, keep, i + 1)

msapriori_candidate_gen(frequent_prev, kk) ==
  LET itemsets == [n \in DOMAIN frequent_prev |-> frequent_prev[n][1]]
      joined == JoinLoop(itemsets, kk, 1, 2, <<>>)
      frequent_sets == Range(itemsets)
      passing == {c \in Range(joined) : all_subsets_frequent(c, frequent_sets)}
  IN KeepSeq(joined, passing, 1)

\* ------------------------------------------------------ constraint filter
\* Lines 298-299 / 328-329.
MinMis(candidate) ==
  LET ms == {get_mis(item) : item \in candidate} IN FMin(ms)

SupportReachesMinMis(candidate) ==
  FGeq(FromRatio(get_support_count(candidate), total_transactions),
       MinMis(candidate))

\* Lines 301-303 / 331-333.
Accepts(candidate) ==
  /\ SupportReachesMinMis(candidate)
  /\ satisfies_sdc(candidate)
  /\ satisfies_avpt(candidate)

\* Lines 294-307 / 325-337: the records of the accepted candidates, in order.
RECURSIVE FrequentOf(_, _)
FrequentOf(cands, i) ==
  IF i > Len(cands) THEN <<>>
  ELSE (IF Accepts(cands[i]) THEN <<Record(cands[i])>> ELSE <<>>)
       \o FrequentOf(cands, i + 1)

\* satisfies_sdc caches the singleton supports it had to compute (line 149).
CacheAfter(cands) ==
  LET looked == UNION {c \in Range(cands) :
                         Cardinality(c) > 1 /\ SupportReachesMinMis(c)}
  IN [item \in DOMAIN item_support_cache \cup looked |-> CachedSupport(item)]

\* ----------------------------------------------------------------- actions
\* Lines 50-51: the "rest" values a parameter file without rest lines leaves.
MisRestDefault == <<1, 100>>
PriceRestDefault == 5

Float(v) == FromRatio(v[1], v[2])

\* The tables a parameter file can leave in self.mis_values: no MIS(item)
\* line at all, or one for each of MISLineItems.
MISTables ==
  {<<>>} \cup [MISLineItems -> {Float(v) : v \in MISValues}]

\* The price lines of a parameter file, as <<self.prices, self.price_rest>>:
\* only Price(rest) = 0, or a line for each of PriceLineItems and no rest line.
PriceFiles ==
  {<<(<<>>), 0>>} \cup {<<t, PriceRestDefault>> : t \in [PriceLineItems -> PriceValues]}

\* __init__ (lines 6-14); the two "rest" fields exist only once
\* read_parameter_file has run and are not read before.
Init ==
  /\ pc = "ReadData"
  /\ transactions = <<>>
  /\ total_transactions = 0
  /\ mis_values = <<>>
  /\ mis_rest = Float(MisRestDefault)
  /\ prices = <<>>
  /\ price_rest = PriceRestDefault
  /\ sdc = FZero
  /\ avpt = FZero
  /\ item_support_cache = <<>>
  /\ frequent_itemsets = <<>>
  /\ M = 0
  /\ candidates_2 = <<>>
  /\ candidates = <<>>
  /\ k = 0

\* read_data_file (lines 32-46).
read_data_file ==
  /\ pc = "ReadData"
  /\ \E file \in DataFiles :
       /\ transactions' = transactions \o file
       /\ total_transactions' = Len(transactions')
  /\ pc' = "ReadParams"
  /\ UNCHANGED <<params, item_support_cache, frequent_itemsets, M,
                 candidates_2, candidates, k>>

\* read_parameter_file (lines 48-94).
read_parameter_file ==
  /\ pc = "ReadParams"
  /\ mis_values' \in MISTables
  /\ mis_rest' \in {Float(v) : v \in MISRestValues}
  /\ \E pf \in PriceFiles : prices' = pf[1] /\ price_rest' = pf[2]
  /\ sdc' \in {Float(v) : v \in SDCValues}
  /\ avpt' \in {Float(v) : v \in AVPTValues}
  /\ pc' = "Init"
  /\ UNCHANGED <<data, item_support_cache, frequent_itemsets, M,
                 candidates_2, candidates, k>>

\* A driver that records a level and goes on even when the level is empty.
NeverStops(found) == FALSE

\* "if not frequent_1" (283), "if frequent_2 ... else" (309-314),
\* "if not frequent_k" (339): the level found nothing.
NoSurvivors(found) == found = <<>>

\* A loop that forgets to increment k.
SameK(kk) == kk

\* Line 344.
NextK(kk) == kk + 1

\* run_msapriori, lines 282-288.
InitPass ==
  /\ pc = "Init"
  /\ LET r == init_pass
         frequent_1 == r[3]
     IN /\ item_support_cache' = r[1]
        /\ M' = r[2]
        /\ IF NoSurvivors(frequent_1)
           THEN /\ pc' = "Done"
                /\ UNCHANGED frequent_itemsets
           ELSE /\ frequent_itemsets' = (1 :> frequent_1) @@ frequent_itemsets
                /\ pc' = "Level2"
  /\ UNCHANGED <<data, params, candidates_2, candidates, k>>

\* run_msapriori, lines 291-317.
Level2 ==
  /\ pc = "Level2"
  /\ LET cands == level2_candidate_gen(frequent_itemsets[1])
         frequent_2 == FrequentOf(cands, 1)
     IN /\ candidates_2' = cands
        /\ item_support_cache' = CacheAfter(cands)
        /\ IF NoSurvivors(frequent_2)
           THEN /\ pc' = "Done"
                /\ UNCHANGED <<frequent_itemsets, k>>
           ELSE /\ frequent_itemsets' = (2 :> frequent_2) @@ frequent_itemsets
                /\ k' = 3
                /\ pc' = "LevelK"
  /\ UNCHANGED <<data, params, M, candidates>>

\* run_msapriori, one turn of the loop of lines 318-344.
LevelK ==
  /\ pc = "LevelK"
  /\ LET cands == msapriori_candidate_gen(frequent_itemsets[k - 1], k)
         frequent_k == FrequentOf(cands, 1)
     IN /\ candidates' = cands
        /\ IF cands = <<>>
           THEN /\ pc' = "Done"
                /\ UNCHANGED <<item_support_cache, frequent_itemsets, k>>
           ELSE /\ item_support_cache' = CacheAfter(cands)
                /\ IF NoSurvivors(frequent_k)
                   THEN /\ pc' = "Done"
                        /\ UNCHANGED <<frequent_itemsets, k>>
                   ELSE /\ frequent_itemsets' =
                             (k :> frequent_k) @@ frequent_itemsets
                        /\ k' = NextK(k)
                        /\ pc' = "LevelK"
  /\ UNCHANGED <<data, params, M, candidates_2>>

Next ==
  \/ read_data_file
  \/ read_parameter_file
  \/ InitPass
  \/ Level2
  \/ LevelK

Spec == Init /\ [][Next]_vars

\* main (lines 372-375) and run_msapriori execute their statements one after
\* another without pausing: while run_msapriori has not returned, the position
\* or the level counter moves on.  A step of Next from a position other than
\* "Done" exists and is such a move, so this is weak fairness of Next, with an
\* enabling condition that is read off pc.
Positions == {"ReadData", "ReadParams", "Init", "Level2", "LevelK", "Done"}
Advance ==
  /\ pc # "Done"
  /\ pc' \in Positions
  /\ k' \in 0 .. (MaxItem + MaxWideItem)

FairSpec == Spec /\ WF_<<pc, k>>(Advance)

\* =================================================================== claims
\* Vocabulary of the claims.  Ratios are exact rationals <<numerator,
\* denominator>> here, compared by cross-multiplication.
RLeq(a, b) == a[1] * b[2] <= b[1] * a[2]
RLess(a, b) == a[1] * b[2] < b[1] * a[2]

\* The decimal literal a parameter was parsed from.
Literals ==
  MISValues \cup MISRestValues \cup SDCValues \cup AVPTValues
    \cup {MisRestDefault}
LiteralTable == {<<Float(v), v>> : v \in Literals}
LiteralOf(x) == (CHOOSE p \in LiteralTable : p[1] = x)[2]

Observed == UNION Range(transactions)
Occurrences(i) == Cardinality({n \in DOMAIN transactions : i \in transactions[n]})
SupportRatio(i) == <<Occurrences(i), total_transactions>>
MIS(i) == LiteralOf(get_mis(i))
AVPT == LiteralOf(avpt)
SDC == LiteralOf(sdc)

\* i sorts strictly before j in (MIS, item id) order.
SortsBefore(i, j) == RLess(MIS(i), MIS(j)) \/ (MIS(i) = MIS(j) /\ i < j)
\* i's own support ratio reaches its own MIS.
MeetsOwnMIS(i) == RLeq(MIS(i), SupportRatio(i))

\* The list recorded under level n (empty when the level is absent) and the
\* itemsets in it.
LevelList(n) ==
  IF n \in DOMAIN frequent_itemsets THEN frequent_itemsets[n] ELSE <<>>
Level(n) == {r[1] : r \in Range(LevelList(n))}
NoDuplicates(list) == Cardinality(Range(list)) = Len(list)

AfterInitPass == pc \in {"Level2", "LevelK", "Done"}
AfterLevel2 == pc \in {"LevelK", "Done"} /\ 1 \in DOMAIN frequent_itemsets

\* C1: once run_msapriori has finished, every itemset S of level n+1 has each
\* size-n subset S \ {x} in level n, whenever that subset still contains the
\* smallest item c1 of S or MIS(x) = MIS(c1).
C1_MonotonicLevels ==
  pc = "Done" =>
    \A n \in DOMAIN frequent_itemsets :
      \A S \in Level(n + 1) :
        \A x \in S :
          LET c1 == MinOf(S)
          IN (c1 \in S \ {x} \/ MIS(x) = MIS(c1)) => (S \ {x}) \in Level(n)

\* A finished run with a level 3 holding an itemset of mixed MIS values.
C1_Witness ==
  /\ pc = "Done"
  /\ \E S \in Level(3) : \E x \in S : MIS(x) # MIS(MinOf(S))

\* C3: M is the first observed item in (MIS, id) order whose support ratio
\* reaches its own MIS; level 1 is exactly the observed items whose support
\* ratio reaches MIS(M) and whose price reaches AVPT, each once with its
\* occurrence count; with no M the run ends with nothing recorded.
C3_InitialPass ==
  AfterInitPass =>
    LET IsAnchor(m) ==
          /\ MeetsOwnMIS(m)
          /\ \A j \in Observed : SortsBefore(j, m) => ~MeetsOwnMIS(j)
        Expected(m) ==
          {i \in Observed : /\ RLeq(MIS(m), SupportRatio(i))
                            /\ RLeq(AVPT, <<get_price(i), 1>>)}
    IN IF \E m \in Observed : IsAnchor(m)
       THEN /\ M \in Observed
            /\ IsAnchor(M)
            /\ {<<r[1], r[2]>> : r \in Range(LevelList(1))}
                 = {<<{i}, Occurrences(i)>> : i \in Expected(M)}
            /\ NoDuplicates(LevelList(1))
       ELSE /\ M = 0
            /\ pc = "Done"
            /\ frequent_itemsets = <<>>

\* Level 1 holds an item that misses its own MIS, M is not the first item of
\* the order, and some observed item is kept out.
C3_Witness ==
  /\ AfterInitPass
  /\ M # 0
  /\ \E i \in Observed : {i} \in Level(1) /\ ~MeetsOwnMIS(i)
  /\ \E i \in Observed : SortsBefore(i, M)
  /\ \E i \in Observed : {i} \notin Level(1)

\* C10: no item sorting strictly before M is a frequent 1-itemset, and M is
\* the first record of level 1 whenever M itself passes AVPT.
C10_NothingBeforeAnchor ==
  (AfterInitPass /\ M # 0) =>
    /\ \A i \in Observed : SortsBefore(i, M) => {i} \notin Level(1)
    /\ RLeq(AVPT, <<get_price(M), 1>>) =>
         (LevelList(1) # <<>> /\ LevelList(1)[1][1] = {M})

\* M passes AVPT and is preceded in the order by an observed item.
C10_Witness ==
  /\ AfterInitPass
  /\ M # 0
  /\ \E i \in Observed : SortsBefore(i, M)
  /\ RLeq(AVPT, <<get_price(M), 1>>)
  /\ Len(LevelList(1)) > 1

\* C9: the level-2 candidates are exactly the pairs {a, b} of level-1 items
\* with a before b in (MIS, id) order and a reaching its own MIS, each once.
C9_Level2Generation ==
  AfterLevel2 =>
    LET L1 == {i \in Observed : {i} \in Level(1)}
    IN /\ Range(candidates_2)
            = {{q[1], q[2]} : q \in {p \in L1 \X L1 :
                 SortsBefore(p[1], p[2]) /\ MeetsOwnMIS(p[1])}}
       /\ NoDuplicates(candidates_2)

\* Some pair is emitted and some pair of level-1 items is held back.
C9_Witness ==
  /\ AfterLevel2
  /\ candidates_2 # <<>>
  /\ \E a, b \in Observed :
       /\ {a} \in Level(1) /\ {b} \in Level(1)
       /\ SortsBefore(a, b) /\ ~MeetsOwnMIS(a)
       /\ {a, b} \notin Range(candidates_2)

\* C8: no itemset occurs twice among the candidates handed to the filter, nor
\* twice in a recorded level.
C8_NoDuplicateCandidates ==
  /\ NoDuplicates(candidates_2)
  /\ NoDuplicates(candidates)
  /\ \A n \in DOMAIN frequent_itemsets :
       NoDuplicates([i \in DOMAIN frequent_itemsets[n] |->
                       frequent_itemsets[n][i][1]])

\* Several candidates of size >= 3 were generated from overlapping itemsets.
C8_Witness == k >= 3 /\ Len(candidates) >= 2

\* The level the last generated candidates (k >= 3) were meant for; 0 when
\* the loop of line 318 has not generated any yet.
CandidatesLevel ==
  IF pc = "Done" /\ k >= 3 THEN k
  ELSE IF pc = "LevelK" /\ k > 3 THEN k - 1
  ELSE 0

\* The three predicates of the constraint evaluator, on exact ratios.
ExactAccepts(C) ==
  LET minMIS == CHOOSE m \in {MIS(i) : i \in C} :
                  \A i \in C : RLeq(m, MIS(i))
      counts == {Occurrences(i) : i \in C}
  IN /\ RLeq(minMIS, <<get_support_count(C), total_transactions>>)
     /\ RLeq(<<MaxOf(counts) - MinOf(counts), total_transactions>>, SDC)
     /\ RLeq(AVPT, <<SumPrice(C), Cardinality(C)>>)

\* C2: at every level >= 2 a generated candidate is recorded exactly when its
\* support ratio reaches the least MIS of its items, the spread of its items'
\* support ratios is at most SDC, and its average price reaches AVPT.
C2_RecordedIffThreePredicates ==
  /\ AfterLevel2 =>
       \A C \in Range(candidates_2) : C \in Level(2) <=> ExactAccepts(C)
  /\ CandidatesLevel # 0 =>
       \A C \in Range(candidates) :
         C \in Level(CandidatesLevel) <=> ExactAccepts(C)

\* Supports 4/5 and 3/5 with SDC = 0.2: the pair {1, 2} reaches its least MIS,
\* has a spread equal to SDC and passes AVPT, and the finished run has not
\* recorded it.
C2_Witness ==
  /\ pc = "Done"
  /\ transactions = <<{1, 2}, {1, 2}, {1}, {1}, {2}>>
  /\ SDC = <<2, 10>>
  /\ candidates_2 = <<{1, 2}>>
  /\ ExactAccepts({1, 2})
  /\ 2 \notin DOMAIN frequent_itemsets

\* C7: a joined candidate whose subsets containing its smallest item c1 are
\* all frequent survives the prune when the one subset without c1 holds only
\* items whose MIS differs from MIS(c1), frequent or not.
C7_ExemptSubsetNotChecked ==
  CandidatesLevel # 0 =>
    LET prev == LevelList(CandidatesLevel - 1)
        itemsets == [n \in DOMAIN prev |-> prev[n][1]]
        joined == Range(JoinLoop(itemsets, CandidatesLevel, 1, 2, <<>>))
    IN \A C \in joined :
         LET c1 == MinOf(C)
         IN (/\ \A x \in C \ {c1} : (C \ {x}) \in Range(itemsets)
             /\ \A y \in C \ {c1} : MIS(y) # MIS(c1))
            => C \in Range(candidates)

\* {1, 3} and {1, 4} are frequent, {3, 4} is not, items 3 and 4 differ in MIS
\* from item 1, and the finished run has generated no candidate of size 3.
C7_Witness ==
  /\ pc = "Done"
  /\ k = 3
  /\ transactions = <<{1, 3, 4}>>
  /\ Level(2) = {{1, 3}, {1, 4}}
  /\ MIS(3) # MIS(1)
  /\ MIS(4) # MIS(1)
  /\ candidates = <<>>

\* The input of the worked scenario.
ScenarioInput ==
  /\ transactions = <<{1, 2, 3}, {1, 2}, {1, 3}, {2, 3}, {1}>>
  /\ \A i \in 1..3 : MIS(i) = <<2, 10>> /\ get_price(i) = 0
  /\ AVPT = <<0, 1>>
  /\ SDC = <<1, 1>>

\* C6: on the scenario's input the finished run has recorded items 1, 2, 3
\* with counts 4, 3, 3, the pair {1, 2} with count 2 and a level 3, and its
\* last act was to find no candidate of size 4.
C6_Scenario ==
  (ScenarioInput /\ pc = "Done") =>
    /\ {<<r[1], r[2]>> : r \in Range(LevelList(1))}
         = {<<{1}, 4>>, <<{2}, 3>>, <<{3}, 3>>}
    /\ \E r \in Range(LevelList(2)) : r[1] = {1, 2} /\ r[2] = 2
    /\ LevelList(3) # <<>>
    /\ k = 4
    /\ candidates = <<>>

\* The run on the scenario's input has finished.
C6_Witness == ScenarioInput /\ pc = "Done"

\* The recorded levels are 1..K, none is empty, and level n holds itemsets of
\* exactly n items.
LevelShape ==
  /\ DOMAIN frequent_itemsets = 1..Cardinality(DOMAIN frequent_itemsets)
  /\ \A n \in DOMAIN frequent_itemsets :
       /\ frequent_itemsets[n] # <<>>
       /\ \A r \in Range(frequent_itemsets[n]) : Cardinality(r[1]) = n

\* A step leaves every recorded level as it is.
LevelsKept ==
  \A n \in DOMAIN frequent_itemsets :
    /\ n \in DOMAIN frequent_itemsets'
    /\ frequent_itemsets'[n] = frequent_itemsets[n]

\* C5: in every state the recorded levels are 1..K, none is empty, level n
\* holds itemsets of exactly n items, and a recorded level is never changed or
\* removed by a later step.
C5_LevelResultSetShape == []LevelShape /\ [][LevelsKept]_vars

\* Four levels are recorded.
C5_Witness == 4 \in DOMAIN frequent_itemsets

\* The step now taken finds nothing: no frequent item (Init), no survivor
\* (Level2), no candidate or no survivor (LevelK).
NothingFound ==
  IF pc = "Init"
  THEN \/ M' = 0
       \/ \A i \in Observed : ~(/\ RLeq(MIS(M'), SupportRatio(i))
                                /\ RLeq(AVPT, <<get_price(i), 1>>))
  ELSE IF pc = "Level2"
  THEN \A C \in Range(candidates_2') : ~Accepts(C)
  ELSE \A C \in Range(candidates') : ~Accepts(C)

\* The moves of main and of the driver.
DriverStep ==
  /\ pc = "ReadData" => pc' = "ReadParams"
  /\ pc = "ReadParams" => pc' = "Init"
  /\ pc = "Init" => pc' \in {"Level2", "Done"}
  /\ pc = "Level2" => (pc' = "LevelK" /\ k' = 3) \/ pc' = "Done"
  /\ pc = "LevelK" => (pc' = "LevelK" /\ k' = k + 1) \/ (pc' = "Done" /\ k' = k)
  /\ pc # "Done"
  /\ pc \in {"Init", "Level2", "LevelK"} => (pc' = "Done" <=> NothingFound)

\* No recorded level exceeds the number of distinct items.
LevelBound ==
  \A n \in DOMAIN frequent_itemsets : n <= Cardinality(Observed)

\* C4: the driver reaches Done; it moves Init -> Level2 -> LevelK(3) ->
\* LevelK(4) ... with k growing by one; it enters Done exactly when the step
\* leaves no frequent item (Init), no survivor (Level2), or no candidate or no
\* survivor (LevelK); no recorded level exceeds the number of distinct items.
C4_Termination ==
  /\ <>(pc = "Done")
  /\ [][DriverStep]_vars
  /\ []LevelBound

\* The driver went through LevelK(3) and LevelK(4) before it stopped.
C4_Witness == pc = "Done" /\ k > 4

====
